---- MODULE Spec2Model ----
(***************************************************************************)
(* Model of collection.go: CollectionSpec, Collection, construction with   *)
(* map relocation (NewCollectionWithOptions), and the enable / attach      *)
(* dispatch of a Collection.                                               *)
(*                                                                         *)
(* Pointers are modelled explicitly: a ProgramSpec's Instructions field is *)
(* an address into `heap`, so that a copy that shares the instruction      *)
(* stream with its original is distinguishable from a deep copy.           *)
(* A nil pointer / nil error is the empty sequence, a non-nil one a        *)
(* one-element (pointer) or non-empty (error chain) sequence.              *)
(***************************************************************************)
EXTENDS Naturals, Sequences, FiniteSets

\* ---------------------------------------------------------------- bounds
\* longest instruction stream of a ProgramSpec
MaxInsns == 2
\* how many times the caller instantiates the same CollectionSpec
MaxCalls == 1
\* how many enable / attach operations the caller issues on a Collection
MaxOps == 2

\* ---------------------------------------------------------------- inputs
MapNames == {"m1", "m2"}
ProgKeys == {"p1", "p2"}
\* symbols an instruction may reference ("" = no reference)
References == {"", "m1", "m2"}
\* 0 = unresolved placeholder, 99 = a value the caller resolved beforehand
Constants == {0, 99}
Insn == [Reference : References, Constant : Constants]

SeqsUpTo(S, n) == UNION {[1..k -> S] : k \in 0..n}

\* addresses of instruction streams: the original spec's, the per-call copy
\* made at collection.go:84, and the streams of a CollectionSpec.Copy()
Addr(region, key) == <<region, key>>
Addrs == {Addr(r, k) : r \in {"orig", "call", "cpy"}, k \in ProgKeys}

\* ----------------------------------------------------------------- errors
NilErr == <<>>
NewErr(text) == <<<<text>>>>
\* errors.Wrapf(err, fmt, name)
Wrapf(err, fmt, name) == <<<<fmt, name>>>> \o err

\* ------------------------------------------------------------- finite maps
EmptyMap == <<>>
Put(f, k, v) == [x \in (DOMAIN f) \cup {k} |-> IF x = k THEN v ELSE f[x]]
Remove(f, k) == [x \in (DOMAIN f) \ {k} |-> f[x]]

VARIABLES
    spec,       \* the caller's *CollectionSpec
    heap,       \* address -> instruction stream
    heap0,      \* the instruction streams as they were before any call
    nextFd,     \* kernel: the next file descriptor handed out
    closed,     \* kernel: descriptors that were closed
    pc,         \* position inside the running operation ("idle" = none)
    nCalls,     \* NewCollectionWithOptions calls started
    maps,       \* NewCollectionWithOptions: local maps
    progs,      \* NewCollectionWithOptions: local progs
    todoMaps,   \* range spec.Maps: names not yet visited
    todoProgs,  \* range spec.Programs: keys not yet visited
    progName,   \* current progName (<<>> outside the loop body)
    progSpec,   \* current progSpec (<<>> outside the loop body)
    todoSyms,   \* range editor.ReferenceOffsets: symbols not yet visited
    trace,      \* the kernel / editor calls of the current construction
    ret,        \* result of the last NewCollectionWithOptions
    cpy,        \* a CollectionSpec.Copy() the caller holds (<<>> = none)
    kcalls,     \* fd -> enable/attach invocations that reached the program
    attached,   \* fd -> enable/attach invocations that succeeded
    nOps,       \* enable / attach operations issued
    bulk,       \* running bulk enable: [op, todo, base]
    opRet,      \* last operation on the Collection and what it returned
    cpyOf,      \* what Copy() was called on: "none", "spec" or "nil"
    closeCalls, \* fd -> Close() invocations that reached the handle
    lifeLog,    \* the Detach / Close operations issued, in order
    fs,         \* file system: [dirs, files (path -> pinned kernel object)]
    cwd,        \* the process's working directory
    fsLog,      \* the file system calls of the running / last Pin
    loadRet     \* result of the last load of the directory as the last Pin left it

vars == <<spec, heap, heap0, nextFd, closed, pc, nCalls, maps, progs, todoMaps,
          todoProgs, progName, progSpec, todoSyms, trace, ret, cpy, kcalls,
          attached, nOps, bulk, opRet, cpyOf, closeCalls, lifeLog, fs, cwd, fsLog,
          loadRet>>

newVars == <<maps, progs, todoMaps, todoProgs, progName, progSpec, todoSyms>>
opVars == <<kcalls, attached, nOps, bulk, opRet>>
extVars == <<closeCalls, lifeLog, fs, cwd, fsLog, loadRet>>

\* ------------------------------------------------ collaborators (editor.go)
\* Edit(&insns): symbol -> offsets of the instructions that reference it
ReferenceOffsets(insns) ==
    [sym \in {insns[i].Reference : i \in DOMAIN insns} \ {""} |->
        {i \in DOMAIN insns : insns[i].Reference = sym}]

\* an offset that already carries a value resolved by the caller
Resolved(insns, offsets) == \E i \in offsets : insns[i].Constant # 0

\* editor.rewriteMap(symbol, m, overwrite): the error and the stream afterwards.
\* All recorded offsets of the symbol are patched, or none is.
rewriteMap(insns, symbol, fd, overwrite) ==
    LET offsets == ReferenceOffsets(insns)[symbol] IN
    IF ~overwrite /\ Resolved(insns, offsets)
    THEN [err |-> NewErr("symbol already rewritten"), insns |-> insns]
    ELSE [err |-> NilErr,
          insns |-> [i \in DOMAIN insns |->
                       IF i \in offsets
                       THEN [insns[i] EXCEPT !.Constant = fd]
                       ELSE insns[i]]]

\* ProgramSpec.Copy(): a deep copy whose instruction stream lives at `addr`
ProgramSpecCopy(ps, addr) == [ps EXCEPT !.Instructions = addr]

\* ----------------------------------------------------------- initial state
ProgTypes == {"Kprobe", "KRetprobe", "TracePoint", "CGroupSKB"}
SectionNames == {"s1", "p2"}

MapSpecOf(name) == [Name |-> name, MaxEntries |-> 1]
ProgramSpecOf(key, section, type) ==
    [SectionName |-> section, Type |-> type, Instructions |-> Addr("orig", key)]

KeySets == {{}, {"p1"}, {"p1", "p2"}}
DefaultSection == [k \in ProgKeys |-> IF k = "p1" THEN "s1" ELSE "p2"]

\* the streams the object parser may hand over: p1 up to MaxInsns instructions,
\* p2 at most one
StreamsOf(key) == IF key = "p1" THEN SeqsUpTo(Insn, MaxInsns) ELSE SeqsUpTo(Insn, 1)

InitCommon ==
    /\ heap0 = heap
    /\ nextFd = 3
    /\ closed = {}
    /\ pc = "idle"
    /\ nCalls = 0
    /\ maps = EmptyMap
    /\ progs = EmptyMap
    /\ todoMaps = {}
    /\ todoProgs = {}
    /\ progName = <<>>
    /\ progSpec = <<>>
    /\ todoSyms = {}
    /\ trace = <<>>
    /\ ret = [coll |-> <<>>, err |-> NilErr]
    /\ cpy = <<>>
    /\ kcalls = EmptyMap
    /\ attached = EmptyMap
    /\ nOps = 0
    /\ bulk = <<>>
    /\ opRet = <<>>
    /\ cpyOf = "none"
    /\ closeCalls = EmptyMap
    /\ lifeLog = <<>>
    /\ fsLog = <<>>
    /\ loadRet = <<>>

\* nothing pinned yet; the process runs in the root directory
InitEnv ==
    /\ fs = [dirs |-> {<<"/">>}, files |-> EmptyMap]
    /\ cwd = <<"/">>

\* specs that differ in their maps and instruction streams
Init ==
    /\ \E ms \in SUBSET MapNames, ks \in KeySets :
          /\ spec = [Maps |-> [n \in ms |-> MapSpecOf(n)],
                     Programs |-> [k \in ks |->
                                     ProgramSpecOf(k, DefaultSection[k], "Kprobe")]]
          /\ \E streams \in [ks -> SeqsUpTo(Insn, MaxInsns)] :
                /\ \A k \in ks : streams[k] \in StreamsOf(k)
                /\ heap = [a \in Addrs |->
                             IF a[1] = "orig" /\ a[2] \in ks
                             THEN streams[a[2]] ELSE <<>>]
    /\ InitCommon
    /\ InitEnv

\* specs that differ in their programs' section names and types
InitOps ==
    /\ \E ms \in SUBSET {"m1"}, ks \in KeySets :
          /\ \E secs \in [ks -> SectionNames], types \in [ks -> ProgTypes] :
                spec = [Maps |-> [n \in ms |-> MapSpecOf(n)],
                        Programs |-> [k \in ks |->
                                        ProgramSpecOf(k, secs[k], types[k])]]
          /\ heap = [a \in Addrs |->
                       IF a[1] = "orig" /\ a[2] \in ks
                       THEN <<[Reference |-> "m1", Constant |-> 0]>> ELSE <<>>]
    /\ InitCommon
    /\ InitEnv

\* ----------------------------------------- NewCollectionWithOptions (72-111)
Event(op, name, sym, fd, insns) ==
    [op |-> op, name |-> name, sym |-> sym, fd |-> fd, insns |-> insns]

\* return nil, err  /  return &Collection{progs, maps}, nil
ReturnPartial(c, err) ==
    /\ ret' = [coll |-> <<[Programs |-> progs, Maps |-> maps]>>, err |-> err]
    /\ pc' = "idle"
Return(c, err) ==
    /\ ret' = [coll |-> c, err |-> err]
    /\ pc' = "idle"

\* the symbols some program of the spec references
ReferencedSymbols ==
    UNION {DOMAIN ReferenceOffsets(heap[spec.Programs[k].Instructions]) :
             k \in DOMAIN spec.Programs}

\* the MapSpecs the first loop visits: range spec.Maps (74)
MapsToCreateReferencedOnly == DOMAIN spec.Maps \cap ReferencedSymbols
MapsToCreate == DOMAIN spec.Maps

\* entry: maps := make(map[string]*Map) (73)
NewCollectionWithOptions ==
    /\ pc = "idle"
    /\ nCalls < MaxCalls
    /\ nOps = 0
    /\ cpyOf = "none"
    /\ nCalls' = nCalls + 1
    /\ pc' = "maps"
    /\ maps' = EmptyMap
    /\ progs' = EmptyMap
    /\ todoMaps' = MapsToCreate
    /\ todoProgs' = DOMAIN spec.Programs
    /\ progName' = <<>>
    /\ progSpec' = <<>>
    /\ todoSyms' = {}
    /\ trace' = <<>>
    /\ ret' = [coll |-> <<>>, err |-> NilErr]
    \* the copies of an earlier call are garbage by now
    /\ heap' = [a \in Addrs |-> IF a[1] = "call" THEN <<>> ELSE heap[a]]
    /\ UNCHANGED <<spec, heap0, nextFd, closed, extVars, cpyOf, cpy, opVars>>

\* one iteration of `for mapName, mapSpec := range spec.Maps` (74-80)
CreateMap ==
    /\ pc = "maps"
    /\ \E mapName \in todoMaps, ok \in BOOLEAN :
          IF ok
          THEN /\ maps' = Put(maps, mapName, nextFd)
               /\ nextFd' = nextFd + 1
               /\ todoMaps' = todoMaps \ {mapName}
               /\ trace' = Append(trace, Event("NewMap", mapName, "", nextFd, <<>>))
               /\ UNCHANGED <<pc, ret>>
          ELSE /\ Return(<<>>, Wrapf(NewErr("NewMap failed"), "map %s", mapName))
               /\ trace' = Append(trace, Event("NewMap", mapName, "", 0, <<>>))
               /\ UNCHANGED <<maps, nextFd, todoMaps>>
    /\ UNCHANGED <<spec, heap, heap0, closed, extVars, cpyOf, nCalls, progs, todoProgs, progName,
                   progSpec, todoSyms, cpy, opVars>>

\* the first loop ends when range spec.Maps is exhausted (74, 80)
MapsLoopLeftEarly == TRUE
MapsLoopDone == todoMaps = {}

\* the first loop is over: progs := make(map[string]*Program) (82)
MapsDone ==
    /\ pc = "maps"
    /\ MapsLoopDone
    /\ pc' = "progs"
    /\ UNCHANGED <<spec, heap, heap0, nextFd, closed, extVars, cpyOf, nCalls, newVars, trace, ret,
                   cpy, opVars>>

\* progSpec := origProgSpec.Copy() (84)
CallProgSpecAliased(key) == spec.Programs[key]
CallProgSpec(key) == ProgramSpecCopy(spec.Programs[key], Addr("call", key))

\* top of `for progName, origProgSpec := range spec.Programs` (83-85)
BeginProgram ==
    /\ pc = "progs"
    /\ \E key \in todoProgs :
          LET ps == CallProgSpec(key) IN
          /\ progName' = <<key>>
          /\ progSpec' = <<ps>>
          /\ heap' = [heap EXCEPT ![Addr("call", key)] =
                                      heap[spec.Programs[key].Instructions]]
          /\ todoSyms' = DOMAIN ReferenceOffsets(heap[spec.Programs[key].Instructions])
    /\ pc' = "syms"
    /\ UNCHANGED <<spec, heap0, nextFd, closed, extVars, cpyOf, nCalls, maps, progs, todoMaps,
                   todoProgs, trace, ret, cpy, opVars>>

\* the overwrite argument of editor.rewriteMap (95)
OverwriteForced == TRUE
Overwrite == FALSE

\* m, ok := maps[sym]; if !ok { continue } (89-92)
HasMapAlways(sym) == TRUE
HasMap(sym) == sym \in DOMAIN maps

\* one iteration of `for sym := range editor.ReferenceOffsets` (88-98)
RewriteSym ==
    /\ pc = "syms"
    /\ \E sym \in todoSyms :
          LET ps == progSpec[1]
              m == IF sym \in DOMAIN maps THEN maps[sym] ELSE 0
              r == rewriteMap(heap[ps.Instructions], sym, m, Overwrite)
          IN
          IF ~HasMap(sym)
          THEN /\ todoSyms' = todoSyms \ {sym}
               /\ UNCHANGED <<heap, trace, pc, ret>>
          ELSE /\ trace' = Append(trace, Event("rewriteMap", progName[1], sym,
                                               m, <<>>))
               /\ heap' = [heap EXCEPT ![ps.Instructions] = r.insns]
               /\ IF r.err # NilErr
                  THEN /\ Return(<<>>, Wrapf(r.err, "program %s", progName[1]))
                       /\ UNCHANGED todoSyms
                  ELSE /\ todoSyms' = todoSyms \ {sym}
                       /\ UNCHANGED <<pc, ret>>
    /\ UNCHANGED <<spec, heap0, nextFd, closed, extVars, cpyOf, nCalls, maps, progs, todoMaps,
                   todoProgs, progName, progSpec, cpy, opVars>>

\* the key under which the new Program is stored (104)
ProgramIndexByKey(name, ps) == name
ProgramIndex(name, ps) == ps.SectionName

\* prog, err := NewProgramWithOptions(progSpec, opts.Programs) (100-104)
CreateProgram ==
    /\ pc = "syms"
    /\ todoSyms = {}
    /\ LET ps == progSpec[1]
           name == progName[1]
       IN \E ok \in BOOLEAN :
          IF ok
          THEN /\ progs' = Put(progs, ProgramIndex(name, ps),
                               [fd |-> nextFd, ProgramSpec |-> ps])
               /\ nextFd' = nextFd + 1
               /\ kcalls' = Put(kcalls, nextFd, 0)
               /\ attached' = Put(attached, nextFd, 0)
               /\ todoProgs' = todoProgs \ {name}
               /\ trace' = Append(trace, Event("NewProgram", name, "", nextFd,
                                               heap[ps.Instructions]))
               /\ pc' = "progs"
               /\ UNCHANGED ret
          ELSE /\ Return(<<>>, Wrapf(NewErr("NewProgram failed"), "program %s", name))
               /\ trace' = Append(trace, Event("NewProgram", name, "", 0,
                                               heap[ps.Instructions]))
               /\ UNCHANGED <<progs, nextFd, kcalls, attached, todoProgs>>
    /\ progName' = <<>>
    /\ progSpec' = <<>>
    /\ UNCHANGED <<spec, heap, heap0, closed, extVars, cpyOf, nCalls, maps, todoMaps, todoSyms, cpy,
                   nOps, bulk, opRet>>

\* return &Collection{progs, maps}, nil (107-110)
ReturnCollection ==
    /\ pc = "progs"
    /\ todoProgs = {}
    /\ Return(<<[Programs |-> progs, Maps |-> maps]>>, NilErr)
    /\ UNCHANGED <<spec, heap, heap0, nextFd, closed, extVars, cpyOf, nCalls, newVars, trace, cpy,
                   opVars>>

Construct ==
    \/ NewCollectionWithOptions
    \/ CreateMap
    \/ MapsDone
    \/ BeginProgram
    \/ RewriteSym
    \/ CreateProgram
    \/ ReturnCollection

\* -------------------------------------------- CollectionSpec.Copy (23-42)
\* cpy.Programs[name] = spec.Copy() (38)
CopiedProgSpecShared(key) == spec.Programs[key]
CopiedProgSpec(key) == ProgramSpecCopy(spec.Programs[key], Addr("cpy", key))

\* the body of Copy for a non-nil receiver (28-41)
CopyNonNil(cs) ==
    <<[Maps |-> [n \in DOMAIN cs[1].Maps |-> cs[1].Maps[n]],
       Programs |-> [k \in DOMAIN cs[1].Programs |-> CopiedProgSpec(k)]]>>

\* cs.Copy(): a nil receiver yields nil (24-26)
CollectionSpecCopyEmptyForNil(cs) ==
    IF cs = <<>> THEN <<[Maps |-> EmptyMap, Programs |-> EmptyMap]>> ELSE CopyNonNil(cs)
CollectionSpecCopy(cs) ==
    IF cs = <<>> THEN <<>> ELSE CopyNonNil(cs)

\* cs.Copy() on the caller's spec
Copy ==
    /\ pc = "idle"
    /\ cpyOf = "none"
    /\ cpyOf' = "spec"
    /\ cpy' = CollectionSpecCopy(<<spec>>)
    /\ heap' = [a \in Addrs |->
                  IF a[1] = "cpy" /\ a[2] \in DOMAIN spec.Programs
                  THEN heap[spec.Programs[a[2]].Instructions]
                  ELSE heap[a]]
    /\ UNCHANGED <<spec, heap0, nextFd, closed, extVars, pc, nCalls, newVars, trace,
                   ret, opVars>>

\* cs.Copy() on a nil *CollectionSpec
CopyNil ==
    /\ pc = "idle"
    /\ cpyOf = "none"
    /\ cpyOf' = "nil"
    /\ cpy' = CollectionSpecCopy(<<>>)
    /\ UNCHANGED <<spec, heap, heap0, nextFd, closed, extVars, pc, nCalls, newVars,
                   trace, ret, opVars>>

\* the caller relocates one symbol of a program of the copy with a map handle
\* of its own (descriptor 50), overwriting
RelocateCopy ==
    /\ pc = "idle"
    /\ cpy # <<>>
    /\ \E key \in DOMAIN cpy[1].Programs :
          LET a == cpy[1].Programs[key].Instructions IN
          \E sym \in DOMAIN ReferenceOffsets(heap[a]) :
             /\ heap[a] # rewriteMap(heap[a], sym, 50, TRUE).insns
             /\ heap' = [heap EXCEPT ![a] = rewriteMap(heap[a], sym, 50, TRUE).insns]
    /\ UNCHANGED <<spec, heap0, nextFd, closed, extVars, cpyOf, pc, nCalls, newVars, trace, ret,
                   cpy, opVars>>

\* ------------------------------------------- enable / attach (129-218)
\* the names a caller looks programs up by
LookupNames == SectionNames \cup ProgKeys

Coll == ret.coll[1]

\* kind introspection of a Program (prog.go)
IsKProbe(prog) == prog.ProgramSpec.Type = "Kprobe"
IsKRetProbe(prog) == prog.ProgramSpec.Type = "KRetprobe"
IsCgroupProgram(prog) == prog.ProgramSpec.Type = "CGroupSKB"

\* The dispatching methods return the error and the program whose enable /
\* attach they invoked (fd 0 = none); `ok` is the collaborator's verdict.
NotFound(fmt, secName) ==
    [err |-> Wrapf(NewErr("section not found"), fmt, secName), fd |-> 0]
WrongKind(text, fmt, secName) ==
    [err |-> Wrapf(NewErr(text), fmt, secName), fd |-> 0]
\* return prog.EnableKprobe(maxactive) / prog.EnableTracepoint() / prog.AttachCgroup(path)
Forward(prog, ok) ==
    [err |-> IF ok THEN NilErr ELSE NewErr("collaborator failed"), fd |-> prog.fd]

\* coll.EnableKprobe(secName, maxactive) (147-165); maxactive is only forwarded
EnableKprobeAnyKind(c, secName, ok) ==
    IF secName \notin DOMAIN c.Programs
    THEN NotFound("couldn't enable kprobe %s", secName)
    ELSE Forward(c.Programs[secName], ok)
EnableKprobeCall(c, secName, ok) ==
    IF secName \notin DOMAIN c.Programs
    THEN NotFound("couldn't enable kprobe %s", secName)
    ELSE IF IsKProbe(c.Programs[secName]) \/ IsKRetProbe(c.Programs[secName])
         THEN Forward(c.Programs[secName], ok)
         ELSE WrongKind("not a kprobe", "couldn't enable program %s", secName)

\* coll.EnableTracepoint(secName) (180-198)
EnableTracepointUnchecked(c, secName, ok) ==
    IF secName \notin DOMAIN c.Programs
    THEN [err |-> NilErr, fd |-> 0]
    ELSE IF c.Programs[secName].ProgramSpec.Type = "TracePoint"
         THEN Forward(c.Programs[secName], ok)
         ELSE WrongKind("not a tracepoint", "couldn't enable program %s", secName)
EnableTracepointCall(c, secName, ok) ==
    IF secName \notin DOMAIN c.Programs
    THEN NotFound("couldn't enable tracepoint %s", secName)
    ELSE IF c.Programs[secName].ProgramSpec.Type = "TracePoint"
         THEN Forward(c.Programs[secName], ok)
         ELSE WrongKind("not a tracepoint", "couldn't enable program %s", secName)

\* coll.AttachCgroupProgram(secName, cgroupPath) (201-218)
AttachCgroupProgramCall(c, secName, ok) ==
    IF secName \notin DOMAIN c.Programs
    THEN NotFound("couldn't attach program %s", secName)
    ELSE IF IsCgroupProgram(c.Programs[secName])
         THEN Forward(c.Programs[secName], ok)
         ELSE WrongKind("not a cgroup program", "couldn't attach program %s", secName)

\* the effect of a dispatch on the collaborator's state
Invoke(r) ==
    /\ kcalls' = IF r.fd = 0 THEN kcalls ELSE [kcalls EXCEPT ![r.fd] = @ + 1]
    /\ attached' = IF r.fd = 0 \/ r.err # NilErr THEN attached
                   ELSE [attached EXCEPT ![r.fd] = @ + 1]

CanOperate ==
    /\ pc = "idle"
    /\ ret.coll # <<>>
    /\ nOps < MaxOps

Single(op, secName, r) ==
    /\ Invoke(r)
    /\ opRet' = <<[op |-> op, name |-> secName, err |-> r.err]>>
    /\ nOps' = nOps + 1
    /\ bulk' = <<>>
    /\ UNCHANGED <<spec, heap, heap0, nextFd, closed, extVars, cpyOf, pc, nCalls, newVars, trace,
                   ret, cpy>>

EnableKprobe ==
    /\ CanOperate
    /\ \E secName \in LookupNames, ok \in BOOLEAN :
          Single("EnableKprobe", secName, EnableKprobeCall(Coll, secName, ok))

EnableTracepoint ==
    /\ CanOperate
    /\ \E secName \in LookupNames, ok \in BOOLEAN :
          Single("EnableTracepoint", secName, EnableTracepointCall(Coll, secName, ok))

AttachCgroupProgram ==
    /\ CanOperate
    /\ \E secName \in LookupNames, ok \in BOOLEAN :
          Single("AttachCgroupProgram", secName,
                 AttachCgroupProgramCall(Coll, secName, ok))

\* entry of EnableKprobes / EnableTracepoints: the range loop starts (130, 169)
BulkStart(op) ==
    /\ CanOperate
    /\ pc' = "bulk"
    /\ bulk' = <<[op |-> op, todo |-> DOMAIN Coll.Programs,
                  kcalls0 |-> kcalls, attached0 |-> attached]>>
    /\ opRet' = <<>>
    /\ nOps' = nOps + 1
    /\ UNCHANGED <<spec, heap, heap0, nextFd, closed, extVars, cpyOf, nCalls, newVars, trace, ret,
                   cpy, kcalls, attached>>

EnableKprobes == BulkStart("EnableKprobes")
EnableTracepoints == BulkStart("EnableTracepoints")

\* the filter of the bulk loops (131, 170)
BulkMatchesAll(op, prog) == TRUE
BulkMatches(op, prog) ==
    IF op = "EnableKprobes"
    THEN IsKProbe(prog) \/ IsKRetProbe(prog)
    ELSE prog.ProgramSpec.Type = "TracePoint"

\* what the bulk loop does after a failing enable (132-134, 171-173)
BulkContinuesAfterError == FALSE
BulkStopsAtError == TRUE

\* one iteration of `for name, prog := range coll.Programs` (130-136, 169-175)
BulkStep ==
    /\ pc = "bulk"
    /\ \E name \in bulk[1].todo, ok \in BOOLEAN :
          LET op == bulk[1].op
              r == IF op = "EnableKprobes"
                   THEN EnableKprobeCall(Coll, name, ok)
                   ELSE EnableTracepointCall(Coll, name, ok)
              fmt == IF op = "EnableKprobes"
                     THEN "couldn't enable kprobe %s"
                     ELSE "couldn't enable tracepoint %s"
          IN
          IF ~BulkMatches(op, Coll.Programs[name])
          THEN /\ bulk' = <<[bulk[1] EXCEPT !.todo = @ \ {name}]>>
               /\ UNCHANGED <<kcalls, attached, opRet, pc>>
          ELSE /\ Invoke(r)
               /\ IF r.err # NilErr /\ BulkStopsAtError
                  THEN /\ opRet' = <<[op |-> op, name |-> name,
                                      err |-> Wrapf(r.err, fmt, name)]>>
                       /\ pc' = "idle"
                       /\ UNCHANGED bulk
                  ELSE /\ bulk' = <<[bulk[1] EXCEPT !.todo = @ \ {name}]>>
                       /\ UNCHANGED <<opRet, pc>>
    /\ UNCHANGED <<spec, heap, heap0, nextFd, closed, extVars, cpyOf, nCalls, newVars, trace, ret,
                   cpy, nOps>>

\* the bulk loop is over: return nil (137, 176)
BulkDone ==
    /\ pc = "bulk"
    /\ bulk[1].todo = {}
    /\ opRet' = <<[op |-> bulk[1].op, name |-> "", err |-> NilErr]>>
    /\ pc' = "idle"
    /\ UNCHANGED <<spec, heap, heap0, nextFd, closed, extVars, cpyOf, nCalls, newVars, trace, ret,
                   cpy, kcalls, attached, nOps, bulk>>

Operate ==
    \/ EnableKprobe
    \/ EnableTracepoint
    \/ AttachCgroupProgram
    \/ EnableKprobes
    \/ EnableTracepoints
    \/ BulkStep
    \/ BulkDone

Next ==
    \/ Construct
    \/ Copy
    \/ CopyNil
    \/ RelocateCopy

Spec == Init /\ [][Next]_vars

NextOps ==
    \/ Construct
    \/ Operate

SpecOps == InitOps /\ [][NextOps]_vars

\* ------------------------------------------------ Detach / Close (223-258)
\* specs that differ in their maps and in their programs' section names
InitLife ==
    /\ \E ms \in SUBSET MapNames, ks \in KeySets :
          /\ \E secs \in [ks -> SectionNames] :
                spec = [Maps |-> [n \in ms |-> MapSpecOf(n)],
                        Programs |-> [k \in ks |->
                                        ProgramSpecOf(k, secs[k], "Kprobe")]]
          /\ heap = [a \in Addrs |->
                       IF a[1] = "orig" /\ a[2] \in ks
                       THEN <<[Reference |-> "m1", Constant |-> 0]>> ELSE <<>>]
    /\ InitCommon
    /\ InitEnv

Count(f, k) == IF k \in DOMAIN f THEN f[k] ELSE 0
Perms(S) == {f \in [1..Cardinality(S) -> S] : \A i, j \in DOMAIN f : f[i] = f[j] => i = j}

\* the handles a Collection holds
ProgFds(c) == {c.Programs[n].fd : n \in DOMAIN c.Programs}
MapFds(c) == {c.Maps[n] : n \in DOMAIN c.Maps}
HeldFds(c) == ProgFds(c) \cup MapFds(c)

\* coll.DetachMap(name) (243-247): the Collection afterwards and the result
DetachMapKeepsEntry(c, name) ==
    [coll |-> c, val |-> IF name \in DOMAIN c.Maps THEN <<c.Maps[name]>> ELSE <<>>]
DetachMapCall(c, name) ==
    [coll |-> [c EXCEPT !.Maps = Remove(c.Maps, name)],
     val |-> IF name \in DOMAIN c.Maps THEN <<c.Maps[name]>> ELSE <<>>]

\* coll.DetachProgram(name) (254-258)
DetachProgramKeepsEntry(c, name) ==
    [coll |-> c,
     val |-> IF name \in DOMAIN c.Programs THEN <<c.Programs[name].fd>> ELSE <<>>]
DetachProgramCall(c, name) ==
    [coll |-> [c EXCEPT !.Programs = Remove(c.Programs, name)],
     val |-> IF name \in DOMAIN c.Programs THEN <<c.Programs[name].fd>> ELSE <<>>]

Detach(op, name, r) ==
    /\ ret' = [ret EXCEPT !.coll = <<r.coll>>]
    /\ opRet' = <<[op |-> op, name |-> name, val |-> r.val]>>
    /\ lifeLog' = Append(lifeLog, [op |-> op, name |-> name, val |-> r.val])
    /\ nOps' = nOps + 1
    /\ UNCHANGED <<spec, heap, heap0, nextFd, closed, pc, nCalls, newVars, trace, cpy,
                   cpyOf, kcalls, attached, bulk, closeCalls, fs, cwd, fsLog, loadRet>>

DetachMap ==
    /\ CanOperate
    /\ \E name \in MapNames : Detach("DetachMap", name, DetachMapCall(Coll, name))

DetachProgram ==
    /\ CanOperate
    /\ \E name \in LookupNames :
          Detach("DetachProgram", name, DetachProgramCall(Coll, name))

\* the entries Close() visits, in the order of one run of its two range loops
CloseEntries(c, progOrder, mapOrder) ==
    [i \in DOMAIN progOrder |->
        [kind |-> "program", name |-> progOrder[i], fd |-> c.Programs[progOrder[i]].fd]]
    \o [i \in DOMAIN mapOrder |->
        [kind |-> "map", name |-> mapOrder[i], fd |-> c.Maps[mapOrder[i]]]]

\* errs = append(errs, errors.Wrapf(errTmp, "couldn't close ... %s", secName))
CloseErr(e) ==
    Wrapf(NewErr("close failed"),
          IF e.kind = "program" THEN "couldn't close program %s"
          ELSE "couldn't close map %s", e.name)

\* coll.Close() (223-236): the entries whose close was invoked and the errors
\* returned; `failing` are the handles whose close the kernel refuses
CloseStopsAtFirstError(entries, failing) ==
    LET bad == {i \in DOMAIN entries : entries[i].fd \in failing}
        stop == IF bad = {} THEN Len(entries)
                ELSE CHOOSE i \in bad : \A j \in bad : i <= j
    IN [visited |-> {entries[i].fd : i \in 1..stop},
        errs |-> IF bad = {} THEN <<>> ELSE <<CloseErr(entries[stop])>>]
CloseCall(entries, failing) ==
    LET bad == SelectSeq(entries, LAMBDA e : e.fd \in failing)
    IN [visited |-> {entries[i].fd : i \in DOMAIN entries},
        errs |-> [i \in DOMAIN bad |-> CloseErr(bad[i])]]

Close ==
    /\ CanOperate
    /\ \E progOrder \in Perms(DOMAIN Coll.Programs), mapOrder \in Perms(DOMAIN Coll.Maps),
          failing \in SUBSET HeldFds(Coll) :
          LET entries == CloseEntries(Coll, progOrder, mapOrder)
              r == CloseCall(entries, failing)
          IN /\ closeCalls' = [fd \in DOMAIN closeCalls \cup r.visited |->
                                 IF fd \in r.visited THEN Count(closeCalls, fd) + 1
                                 ELSE closeCalls[fd]]
             /\ closed' = closed \cup (r.visited \ failing)
             /\ opRet' = <<[op |-> "Close", errs |-> r.errs, failing |-> failing,
                            calls0 |-> closeCalls, closed0 |-> closed]>>
    /\ lifeLog' = Append(lifeLog, [op |-> "Close", name |-> "", val |-> <<>>])
    /\ nOps' = nOps + 1
    /\ UNCHANGED <<spec, heap, heap0, nextFd, pc, nCalls, newVars, trace, ret, cpy,
                   cpyOf, kcalls, attached, bulk, fs, cwd, fsLog, loadRet>>

NextLife ==
    \/ Construct
    \/ DetachMap
    \/ DetachProgram
    \/ Close

SpecLife == InitLife /\ [][NextLife]_vars

\* ------------------------------------------------ Pin / load (263-379)
\* a path is the sequence of its elements; an absolute path starts with "/"
PinDir == <<"/", "d">>
Join(path, elem) == Append(path, elem)
Base(path) == path[Len(path)]
Parent(path) == SubSeq(path, 1, Len(path) - 1)
Resolve(dir, path) == IF path[1] = "/" THEN path ELSE dir \o path

\* directories found before the first call, and the process's working directory
PreDirs == {{}, {PinDir, Join(PinDir, "maps"), Join(PinDir, "programs")}}
Cwds == {<<"/">>, Join(PinDir, "maps")}

InitPin ==
    /\ \E ms \in {{}, {"m1"}, MapNames}, ks \in KeySets :
          /\ spec = [Maps |-> [n \in ms |-> MapSpecOf(n)],
                     Programs |-> [k \in ks |->
                                     ProgramSpecOf(k, DefaultSection[k], "Kprobe")]]
          /\ heap = [a \in Addrs |->
                       IF a[1] = "orig" /\ a[2] \in ks
                       THEN <<[Reference |-> "m1", Constant |-> 0]>> ELSE <<>>]
    /\ InitCommon
    /\ \E pre \in PreDirs : fs = [dirs |-> {<<"/">>} \cup pre, files |-> EmptyMap]
    /\ cwd \in Cwds

\* if len(coll.Maps) > 0 / if len(coll.Programs) > 0 (268, 281)
NeedsDirAlways(entries) == TRUE
NeedsDir(entries) == Cardinality(DOMAIN entries) > 0

\* the calls of Pin in the order of one run, were none of them to fail
PinSteps(c, dirName, mapOrder, progOrder) ==
    LET mapPath == Join(dirName, "maps")
        progPath == Join(dirName, "programs")
    IN <<[op |-> "mkdirIfNotExists", path |-> dirName, name |-> "", fd |-> 0]>>
       \o (IF NeedsDir(c.Maps)
           THEN <<[op |-> "mkdirIfNotExists", path |-> mapPath, name |-> "", fd |-> 0]>>
                \o [i \in DOMAIN mapOrder |->
                      [op |-> "pinMap", path |-> Join(mapPath, mapOrder[i]),
                       name |-> mapOrder[i], fd |-> c.Maps[mapOrder[i]]]]
           ELSE <<>>)
       \o (IF NeedsDir(c.Programs)
           THEN <<[op |-> "mkdirIfNotExists", path |-> progPath, name |-> "", fd |-> 0]>>
                \o [i \in DOMAIN progOrder |->
                      [op |-> "pinProgram", path |-> Join(progPath, progOrder[i]),
                       name |-> progOrder[i], fd |-> c.Programs[progOrder[i]].fd]]
           ELSE <<>>)

\* Map.Pin(path) / Program.Pin(path): the object found at path afterwards
Pinned(step) == [kind |-> step.op, fd |-> step.fd]

\* what Pin returns when the given call fails
PinErr(step) ==
    IF step.op = "mkdirIfNotExists" THEN NewErr("mkdir failed")
    ELSE Wrapf(NewErr("pin failed"),
               IF step.op = "pinMap" THEN "map %s" ELSE "program %s", step.name)

\* coll.Pin(dirName, fileMode) (263-295) where call number failAt fails (0: none)
PinCall(files, steps, failAt) ==
    LET last == IF failAt = 0 THEN Len(steps) ELSE failAt
        done == {i \in 1..last : i # failAt}
        pins == {i \in done : steps[i].op # "mkdirIfNotExists"}
    IN [fs |-> [dirs |-> files.dirs \cup {steps[i].path : i \in done \ pins},
                files |-> [q \in DOMAIN files.files \cup {steps[i].path : i \in pins} |->
                              IF \E i \in pins : steps[i].path = q
                              THEN LET i == CHOOSE j \in pins : steps[j].path = q
                                   IN Pinned(steps[i])
                              ELSE files.files[q]]],
        err |-> IF failAt = 0 THEN NilErr ELSE PinErr(steps[failAt]),
        log |-> SubSeq(steps, 1, last)]

Pin ==
    /\ CanOperate
    /\ \E progOrder \in Perms(DOMAIN Coll.Programs), mapOrder \in Perms(DOMAIN Coll.Maps) :
          LET steps == PinSteps(Coll, PinDir, mapOrder, progOrder) IN
          \E failAt \in 0..Len(steps) :
             LET r == PinCall(fs, steps, failAt) IN
             /\ fs' = r.fs
             /\ fsLog' = r.log
             /\ opRet' = <<[op |-> "Pin", err |-> r.err, log |-> r.log, fs0 |-> fs]>>
    /\ loadRet' = <<>>
    /\ nOps' = nOps + 1
    /\ UNCHANGED <<spec, heap, heap0, nextFd, closed, pc, nCalls, newVars, trace, ret, cpy,
                   cpyOf, kcalls, attached, bulk, closeCalls, lifeLog, cwd>>

\* the sentinel os.ErrNotExist and the *os.PathError values ioutil.ReadDir returns
ErrNotExist == NewErr("file does not exist")
PathError(op, path, errno) == <<<<"PathError", op, path, errno>>>>

\* ioutil.ReadDir(dirName): the directory's entries sorted by name
NameOrder == <<"m1", "m2", "p2", "s1">>
ReadDir(files, dirName, ok) ==
    IF dirName \notin files.dirs
    THEN [files |-> <<>>, err |-> PathError("open", dirName, "ENOENT")]
    ELSE IF ~ok
    THEN [files |-> <<>>, err |-> PathError("open", dirName, "EACCES")]
    ELSE [files |-> SelectSeq(NameOrder,
                              LAMBDA n : Join(dirName, n) \in DOMAIN files.files),
          err |-> NilErr]

\* readFileNames(dirName) (369-379)
readFileNames(files, dirName, ok) ==
    LET r == ReadDir(files, dirName, ok) IN
    IF r.err # NilErr /\ r.err # ErrNotExist
    THEN [fileNames |-> <<>>, err |-> r.err]
    ELSE [fileNames |-> [i \in DOMAIN r.files |-> <<r.files[i]>>], err |-> NilErr]

\* the caller's ABI tables of LoadPinnedCollectionExplicit
ABIOf(name) == <<"ABI", name>>

\* the loadMap / loadProgram calls of loadCollection, were none of them to fail
LoadCalls(mapFiles, progFiles, explicit) ==
    [i \in DOMAIN mapFiles |->
        [kind |-> "pinMap", name |-> Base(mapFiles[i]), path |-> mapFiles[i],
         abi |-> IF explicit THEN <<ABIOf(Base(mapFiles[i]))>> ELSE <<>>]]
    \o [i \in DOMAIN progFiles |->
        [kind |-> "pinProgram", name |-> Base(progFiles[i]), path |-> progFiles[i],
         abi |-> IF explicit THEN <<ABIOf(Base(progFiles[i]))>> ELSE <<>>]]

\* LoadPinnedMap(path) / LoadPinnedProgram(path): opens the object pinned at path
LoadPinned(files, dir, call, refused) ==
    LET q == Resolve(dir, call.path) IN
    /\ q \in DOMAIN files.files
    /\ files.files[q].kind = call.kind
    /\ call.name \notin refused

\* loadCollection(dirName, loadMap, loadProgram) (337-367)
loadCollection(files, dir, dirName, explicit, okMaps, okProgs, refused) ==
    LET maps_ == readFileNames(files, Join(dirName, "maps"), okMaps)
        progs_ == readFileNames(files, Join(dirName, "programs"), okProgs)
        calls == LoadCalls(maps_.fileNames, progs_.fileNames, explicit)
        bad == {i \in DOMAIN calls : ~LoadPinned(files, dir, calls[i], refused)}
        first == CHOOSE i \in bad : \A j \in bad : i <= j
        obj(c) == files.files[Resolve(dir, c.path)].fd
        loaded(kind) == {i \in DOMAIN calls : calls[i].kind = kind}
    IN IF maps_.err # NilErr THEN [coll |-> <<>>, err |-> maps_.err, calls |-> <<>>]
       ELSE IF progs_.err # NilErr THEN [coll |-> <<>>, err |-> progs_.err, calls |-> <<>>]
       ELSE IF bad # {}
       THEN [coll |-> <<>>,
             err |-> Wrapf(NewErr("load failed"),
                           IF calls[first].kind = "pinMap" THEN "map %s" ELSE "program %s",
                           calls[first].name),
             calls |-> SubSeq(calls, 1, first)]
       ELSE [coll |-> <<[Maps |-> [n \in {calls[i].name : i \in loaded("pinMap")} |->
                                     obj(calls[CHOOSE i \in loaded("pinMap") :
                                                  calls[i].name = n])],
                         Programs |-> [n \in {calls[i].name : i \in loaded("pinProgram")} |->
                                     obj(calls[CHOOSE i \in loaded("pinProgram") :
                                                  calls[i].name = n])]]>>,
             err |-> NilErr,
             calls |-> calls]

\* what the system may refuse during one load: one directory listing, or the
\* opening of one pinned object
LoadFaults ==
    {[listing |-> l, refused |-> {}] : l \in {"none", "maps", "programs"}}
    \cup {[listing |-> "none", refused |-> {n}] : n \in {"m1", "s1"}}

\* LoadPinnedCollection(dirName) (312-322), LoadPinnedCollectionExplicit (325-335)
Load(explicit) ==
    /\ CanOperate
    /\ \E fault \in LoadFaults :
          LET r == loadCollection(fs, cwd, PinDir, explicit, fault.listing # "maps",
                                  fault.listing # "programs", fault.refused)
          IN loadRet' = <<[explicit |-> explicit, coll |-> r.coll, err |-> r.err,
                           calls |-> r.calls, fault |-> fault]>>
    /\ nOps' = nOps + 1
    /\ UNCHANGED <<spec, heap, heap0, nextFd, closed, pc, nCalls, newVars, trace, ret, cpy,
                   cpyOf, kcalls, attached, bulk, opRet, closeCalls, lifeLog, fs, cwd,
                   fsLog>>

LoadPinnedCollection == Load(FALSE)
LoadPinnedCollectionExplicit == Load(TRUE)

NextPin ==
    \/ Construct
    \/ Pin
    \/ LoadPinnedCollection
    \/ LoadPinnedCollectionExplicit

SpecPin == InitPin /\ [][NextPin]_vars

\* ================================================================= claims
\* NewCollectionWithOptions has returned and the Collection was not used since
Returned == pc = "idle" /\ nCalls > 0 /\ nOps = 0
Succeeded == Returned /\ ret.coll # <<>>
Failed == Returned /\ ret.err # NilErr

\* the kernel creations of the current call that handed out a descriptor
Created(op) == {i \in DOMAIN trace : trace[i].op = op /\ trace[i].fd # 0}
OrigStream(key) == heap0[Addr("orig", key)]
UnreferencedMaps == DOMAIN spec.Maps \ ReferencedSymbols

C2_OnlyReferencedMapsCreated ==
    Succeeded => DOMAIN Coll.Maps \subseteq ReferencedSymbols

C4_OriginalUntouched ==
    \A k \in DOMAIN spec.Programs :
        /\ spec.Programs[k].Instructions = Addr("orig", k)
        /\ heap[Addr("orig", k)] = heap0[Addr("orig", k)]

C4_Witness ==
    /\ Succeeded
    /\ \E r \in DOMAIN trace : trace[r].op = "rewriteMap"
    /\ \E k \in DOMAIN spec.Programs :
          /\ heap[Addr("call", k)] # heap0[Addr("orig", k)]
          /\ cpy # <<>>
          /\ heap[Addr("cpy", k)] # heap0[Addr("orig", k)]

\* C5: a failing call returns a nil Collection and an error wrapped with the
\* name of the map or program whose step failed; that step is the last kernel
\* or editor call of the construction, and no handle created before is closed.
C5_FailFast ==
    Failed =>
        /\ ret.coll = <<>>
        /\ trace # <<>>
        /\ LET last == trace[Len(trace)] IN
           /\ last.op = "NewMap" =>
                 last.fd = 0 /\ ret.err[1] = <<"map %s", last.name>>
           /\ last.op = "NewProgram" =>
                 last.fd = 0 /\ ret.err[1] = <<"program %s", last.name>>
           /\ last.op = "rewriteMap" =>
                 ret.err[1] = <<"program %s", last.name>>
        /\ \A i \in 1..(Len(trace) - 1) :
              trace[i].op \in {"NewMap", "NewProgram"} => trace[i].fd # 0
        /\ \A i \in DOMAIN trace : trace[i].fd \notin closed

C5_Witness ==
    /\ Failed
    /\ trace[Len(trace)].op = "NewProgram"
    /\ Created("NewMap") # {}
    /\ Created("NewProgram") # {}
    /\ todoProgs # {}

\* C6: a program with an offset of a matching symbol that the caller resolved
\* beforehand is never created: the rewrite (not forced) fails, the stream is
\* left as it was, and the call returns nil and the error wrapped with the
\* program's name.
PreResolved(key) ==
    {sym \in DOMAIN ReferenceOffsets(OrigStream(key)) :
        sym \in DOMAIN spec.Maps /\
        Resolved(OrigStream(key), ReferenceOffsets(OrigStream(key))[sym])}

SectionsOfSpec == {spec.Programs[k].SectionName : k \in DOMAIN spec.Programs}
IsNotFound(err) == err # NilErr /\ err[Len(err)] = <<"section not found">>

SingleStep == nOps' = nOps + 1 /\ opRet' # <<>>

\* C8: a single enable / attach on a name that is no key of Programs fails with
\* "section not found" wrapped with the name, reaches no program's enable or
\* attach, and leaves the Collection as it was.
C8_NotFound ==
    [][(SingleStep /\ opRet'[1].name \notin DOMAIN Coll.Programs) =>
          /\ IsNotFound(opRet'[1].err)
          /\ opRet'[1].err[1][2] = opRet'[1].name
          /\ UNCHANGED <<kcalls, attached, ret>>]_vars

C8_Witness ==
    /\ opRet # <<>>
    /\ opRet[1].op = "AttachCgroupProgram"
    /\ DOMAIN Coll.Programs # {}
    /\ opRet[1].name \notin DOMAIN Coll.Programs
    /\ IsNotFound(opRet[1].err)

\* the kind each single operation requires
KindMatches(op, type) ==
    CASE op = "EnableKprobe" -> type \in {"Kprobe", "KRetprobe"}
      [] op = "EnableTracepoint" -> type = "TracePoint"
      [] op = "AttachCgroupProgram" -> type = "CGroupSKB"
WrongKindText(op) ==
    CASE op = "EnableKprobe" -> "not a kprobe"
      [] op = "EnableTracepoint" -> "not a tracepoint"
      [] op = "AttachCgroupProgram" -> "not a cgroup program"

\* C9: a single enable / attach on an existing program of another kind fails
\* with the operation's wrong-kind error and changes nothing; the
\* collaborator's enable / attach is invoked (once, on the named program)
\* exactly if the name exists and the kind matches.
C9_WrongKind ==
    [][SingleStep =>
          LET o == opRet'[1]
              exists == o.name \in DOMAIN Coll.Programs
              matches == exists /\
                         KindMatches(o.op, Coll.Programs[o.name].ProgramSpec.Type)
          IN /\ (exists /\ ~matches) =>
                   /\ o.err[Len(o.err)] = <<WrongKindText(o.op)>>
                   /\ o.err[1][2] = o.name
                   /\ UNCHANGED <<kcalls, attached, ret>>
             /\ (kcalls' # kcalls) <=> matches
             /\ matches =>
                   kcalls' = [kcalls EXCEPT ![Coll.Programs[o.name].fd] = @ + 1]
             /\ ret' = ret]_vars

C9_Witness ==
    /\ opRet # <<>>
    /\ opRet[1].op = "EnableKprobe"
    /\ opRet[1].name \in DOMAIN Coll.Programs
    /\ Coll.Programs[opRet[1].name].ProgramSpec.Type = "TracePoint"
    /\ opRet[1].err = Wrapf(NewErr("not a kprobe"), "couldn't enable program %s",
                            opRet[1].name)
    /\ \A fd \in DOMAIN kcalls : kcalls[fd] = 0

\* the programs a bulk operation is about
BulkKind(op, prog) ==
    IF op = "EnableKprobes"
    THEN prog.ProgramSpec.Type \in {"Kprobe", "KRetprobe"}
    ELSE prog.ProgramSpec.Type = "TracePoint"
BulkReturned ==
    pc = "idle" /\ opRet # <<>> /\ opRet[1].op \in {"EnableKprobes", "EnableTracepoints"}
Invocations(name) == kcalls[Coll.Programs[name].fd] - bulk[1].kcalls0[Coll.Programs[name].fd]
Enabled(name) == attached[Coll.Programs[name].fd] - bulk[1].attached0[Coll.Programs[name].fd]

\* C10: a bulk enable that returns no error has enabled every program of its
\* kind exactly once and invoked nothing on the others; one that returns an
\* error names the single program whose enable failed, wrapped in the bulk
\* operation's message, has attempted nothing after it, and every program it
\* enabled before stays enabled.
C10_Bulk ==
    BulkReturned =>
        LET o == opRet[1] IN
        /\ \A n \in DOMAIN Coll.Programs :
              ~BulkKind(o.op, Coll.Programs[n]) => Invocations(n) = 0 /\ Enabled(n) = 0
        /\ o.err = NilErr =>
              \A n \in DOMAIN Coll.Programs :
                 BulkKind(o.op, Coll.Programs[n]) => Invocations(n) = 1 /\ Enabled(n) = 1
        /\ o.err # NilErr =>
              /\ o.name \in DOMAIN Coll.Programs
              /\ BulkKind(o.op, Coll.Programs[o.name])
              /\ Invocations(o.name) = 1 /\ Enabled(o.name) = 0
              /\ o.err[1] = <<IF o.op = "EnableKprobes"
                              THEN "couldn't enable kprobe %s"
                              ELSE "couldn't enable tracepoint %s", o.name>>
              /\ o.err[Len(o.err)] = <<"collaborator failed">>
              /\ \A n \in DOMAIN Coll.Programs \ {o.name} :
                    BulkKind(o.op, Coll.Programs[n]) =>
                    \/ Invocations(n) = 1 /\ Enabled(n) = 1 /\ n \notin bulk[1].todo
                    \/ Invocations(n) = 0 /\ Enabled(n) = 0 /\ n \in bulk[1].todo

C10_Witness ==
    /\ BulkReturned
    /\ opRet[1].err # NilErr
    /\ \E n \in DOMAIN Coll.Programs \ {opRet[1].name} : Enabled(n) = 1
    /\ Enabled(opRet[1].name) = 0

\* C17 (as claimed): Copy() on a nil CollectionSpec returns a non-nil spec
\* with empty Maps and Programs.
C17_NilCopyIsEmptySpec ==
    cpyOf = "nil" => cpy = <<[Maps |-> EmptyMap, Programs |-> EmptyMap]>>

\* C17 (amended): Copy() on a nil CollectionSpec returns nil, without failing.
C17_NilCopyIsNil ==
    cpyOf = "nil" => cpy = <<>> /\ pc = "idle"

C17_Witness == cpyOf = "nil" /\ pc = "idle"

\* C18: in the construction's call sequence every NewMap precedes the first
\* rewrite and the first NewProgram, at each of which every map of the spec
\* already has a handle; and a program's rewrites precede its own creation.
IsMapStep(i) == trace[i].op = "NewMap"
C18_MapsFirst ==
    \A e \in DOMAIN trace :
        ~IsMapStep(e) =>
           /\ \A i \in DOMAIN trace : IsMapStep(i) => i < e
           /\ \A n \in DOMAIN spec.Maps :
                 \E i \in 1..(e - 1) :
                    IsMapStep(i) /\ trace[i].name = n /\ trace[i].fd # 0
           /\ trace[e].op = "rewriteMap" =>
                 \A c \in 1..(e - 1) :
                    ~(trace[c].op = "NewProgram" /\ trace[c].name = trace[e].name)

C18_Witness ==
    /\ Succeeded
    /\ Cardinality(Created("NewMap")) = 2
    /\ Cardinality(Created("NewProgram")) = 2
    /\ \A k \in DOMAIN spec.Programs :
          \E r \in DOMAIN trace : trace[r].op = "rewriteMap" /\ trace[r].name = k

\* the steps and results of Detach / Close
LifeStep(op) == nOps' = nOps + 1 /\ opRet' # <<>> /\ opRet'[1].op = op
JustClosed == ret.coll # <<>> /\ opRet # <<>> /\ opRet[1].op = "Close"
Closes == {i \in DOMAIN lifeLog : lifeLog[i].op = "Close"}
Detaches == {i \in DOMAIN lifeLog : lifeLog[i].op # "Close" /\ lifeLog[i].val # <<>>}
DetachedFds == {lifeLog[i].val[1] : i \in Detaches}
ErrsNaming(errs, kind, name) ==
    {i \in DOMAIN errs :
        errs[i][1] = <<IF kind = "program" THEN "couldn't close program %s"
                       ELSE "couldn't close map %s", name>>}

\* C11: Close() invokes close on every Program and every Map it holds, whatever
\* closes failed before, and returns exactly one error per failing close, each
\* wrapped with the entry's kind and name (none when every close succeeds).
C11_CloseAll ==
    JustClosed =>
       LET o == opRet[1] IN
       /\ \A fd \in HeldFds(Coll) :
             /\ Count(closeCalls, fd) = Count(o.calls0, fd) + 1
             /\ fd \notin o.failing => fd \in closed
       /\ Len(o.errs) = Cardinality(HeldFds(Coll) \cap o.failing)
       /\ \A n \in DOMAIN Coll.Programs :
             Cardinality(ErrsNaming(o.errs, "program", n)) =
                IF Coll.Programs[n].fd \in o.failing THEN 1 ELSE 0
       /\ \A n \in DOMAIN Coll.Maps :
             Cardinality(ErrsNaming(o.errs, "map", n)) =
                IF Coll.Maps[n] \in o.failing THEN 1 ELSE 0
       /\ \A i \in DOMAIN o.errs : o.errs[i][Len(o.errs[i])] = <<"close failed">>

C11_Witness ==
    /\ JustClosed
    /\ Len(opRet[1].errs) = 1
    /\ opRet[1].failing \subseteq ProgFds(Coll)
    /\ Cardinality(ProgFds(Coll)) = 2
    /\ MapFds(Coll) # {}
    /\ HeldFds(Coll) \ opRet[1].failing \subseteq closed

\* C12: DetachMap / DetachProgram of a present name returns the entry's handle
\* and removes only that entry; of an absent name it returns nil and changes
\* nothing; neither closes anything. A Close() invokes close on exactly the
\* entries still held, so never on a handle detached before.
C12_Detach ==
    [][/\ LifeStep("DetachMap") =>
            LET o == opRet'[1] IN
            /\ IF o.name \in DOMAIN Coll.Maps
               THEN /\ o.val = <<Coll.Maps[o.name]>>
                    /\ DOMAIN Coll'.Maps = DOMAIN Coll.Maps \ {o.name}
                    /\ \A n \in DOMAIN Coll'.Maps : Coll'.Maps[n] = Coll.Maps[n]
                    /\ Coll'.Programs = Coll.Programs
               ELSE o.val = <<>> /\ ret' = ret
            /\ closed' = closed /\ closeCalls' = closeCalls
       /\ LifeStep("DetachProgram") =>
            LET o == opRet'[1] IN
            /\ IF o.name \in DOMAIN Coll.Programs
               THEN /\ o.val = <<Coll.Programs[o.name].fd>>
                    /\ DOMAIN Coll'.Programs = DOMAIN Coll.Programs \ {o.name}
                    /\ \A n \in DOMAIN Coll'.Programs :
                          Coll'.Programs[n] = Coll.Programs[n]
                    /\ Coll'.Maps = Coll.Maps
               ELSE o.val = <<>> /\ ret' = ret
            /\ closed' = closed /\ closeCalls' = closeCalls
       /\ LifeStep("Close") =>
            /\ \A fd \in HeldFds(Coll) \cup DetachedFds :
                  Count(closeCalls', fd) =
                     Count(closeCalls, fd) + (IF fd \in HeldFds(Coll) THEN 1 ELSE 0)
            /\ DetachedFds \cap HeldFds(Coll) = {}
      ]_vars

C12_Witness ==
    /\ Len(lifeLog) = 2
    /\ lifeLog[1].op = "DetachMap" /\ lifeLog[1].val # <<>>
    /\ lifeLog[2].op = "Close"
    /\ Count(closeCalls, lifeLog[1].val[1]) = 0
    /\ MapFds(Coll) # {} /\ ProgFds(Coll) # {}
    /\ \A fd \in HeldFds(Coll) : Count(closeCalls, fd) = 1

\* C13 (as claimed): over any sequence of Detach and Close calls no handle has
\* its close invoked twice, and no detached handle has its close invoked at all.
C13_ClosedAtMostOnce ==
    /\ \A fd \in DOMAIN closeCalls : closeCalls[fd] <= 1
    /\ \A fd \in DetachedFds : Count(closeCalls, fd) = 0

\* C13 (amended): a handle's close is invoked once by every Close() made while
\* the Collection holds it: as often as Close() was called for a held handle,
\* as often as Close() was called before its detach for a detached one.
C13_ClosedOncePerClose ==
    ret.coll # <<>> =>
       /\ \A fd \in HeldFds(Coll) : Count(closeCalls, fd) = Cardinality(Closes)
       /\ \A d \in Detaches :
             Count(closeCalls, lifeLog[d].val[1]) =
                Cardinality({c \in Closes : c < d})

C13_Witness ==
    /\ Len(lifeLog) = 2
    /\ lifeLog[1].op = "Close" /\ lifeLog[2].op = "DetachProgram"
    /\ lifeLog[2].val # <<>>
    /\ closeCalls[lifeLog[2].val[1]] = 1
    /\ HeldFds(Coll) # {}

JustPinned == ret.coll # <<>> /\ opRet # <<>> /\ opRet[1].op = "Pin"
JustLoaded == loadRet # <<>>
SubDir(kind) == Join(PinDir, IF kind = "pinMap" THEN "maps" ELSE "programs")
Entries(kind) == IF kind = "pinMap" THEN DOMAIN Coll.Maps ELSE DOMAIN Coll.Programs
Handle(kind, n) == IF kind = "pinMap" THEN Coll.Maps[n] ELSE Coll.Programs[n].fd

\* C14: Pin ensures dirName first, then maps/ only with >= 1 map and programs/
\* only with >= 1 program, each before any pin below it; pins every entry at
\* <dir>/maps/<name> or <dir>/programs/<name>; stops at the first failing pin
\* with the error wrapped with the entry's name, leaving earlier pins in place.
C14_Pin ==
    JustPinned =>
       LET o == opRet[1]
           log == o.log
           failed == o.err # NilErr
           ok(i) == ~(failed /\ i = Len(log))
           pins == {i \in DOMAIN log : log[i].op # "mkdirIfNotExists"}
       IN /\ log[1].op = "mkdirIfNotExists" /\ log[1].path = PinDir
          /\ ~failed => PinDir \in fs.dirs
          /\ \A kind \in {"pinMap", "pinProgram"} :
                /\ Entries(kind) = {} =>
                      /\ SubDir(kind) \in fs.dirs => SubDir(kind) \in o.fs0.dirs
                      /\ \A i \in DOMAIN log : log[i].path # SubDir(kind)
                /\ ~failed =>
                      \A n \in Entries(kind) :
                         /\ SubDir(kind) \in fs.dirs
                         /\ \E i \in pins : log[i].op = kind /\ log[i].name = n
          /\ \A i \in pins :
                /\ log[i].name \in Entries(log[i].op)
                /\ log[i].fd = Handle(log[i].op, log[i].name)
                /\ log[i].path = Join(SubDir(log[i].op), log[i].name)
                /\ \E j \in 1..(i - 1) :
                      log[j].op = "mkdirIfNotExists" /\ log[j].path = SubDir(log[i].op)
                /\ SubDir(log[i].op) \in fs.dirs
                /\ ok(i) => fs.files[log[i].path] = [kind |-> log[i].op, fd |-> log[i].fd]
                /\ ~ok(i) =>
                      /\ o.err = <<<<IF log[i].op = "pinMap" THEN "map %s" ELSE "program %s",
                                     log[i].name>>, <<"pin failed">>>>
                      /\ log[i].path \in DOMAIN fs.files =>
                            log[i].path \in DOMAIN o.fs0.files
          /\ DOMAIN fs.files \ DOMAIN o.fs0.files \subseteq {log[i].path : i \in pins}
          /\ \A q \in DOMAIN o.fs0.files \ {log[i].path : i \in pins} :
                fs.files[q] = o.fs0.files[q]

C14_Witness ==
    /\ JustPinned
    /\ opRet[1].fs0.dirs = {<<"/">>}
    /\ opRet[1].err # NilErr
    /\ opRet[1].log[Len(opRet[1].log)].op = "pinProgram"
    /\ Cardinality(DOMAIN Coll.Maps) = 2
    /\ \A n \in DOMAIN Coll.Maps : Join(SubDir("pinMap"), n) \in DOMAIN fs.files
    /\ Cardinality(DOMAIN Coll.Programs) = 2
    /\ \E n \in DOMAIN Coll.Programs : Join(SubDir("pinProgram"), n) \in DOMAIN fs.files

\* C15: a Collection pinned without error into an empty directory and loaded
\* from it with nothing refused loads without error, with the same map and
\* program names, each handle opened from the object pinned under that name.
C15_RoundTrip ==
    (/\ JustLoaded
     /\ JustPinned
     /\ opRet[1].err = NilErr
     /\ opRet[1].fs0.files = EmptyMap
     /\ loadRet[1].fault = [listing |-> "none", refused |-> {}])
    => /\ loadRet[1].err = NilErr
       /\ loadRet[1].coll # <<>>
       /\ DOMAIN loadRet[1].coll[1].Maps = DOMAIN Coll.Maps
       /\ DOMAIN loadRet[1].coll[1].Programs = DOMAIN Coll.Programs
       /\ \A n \in DOMAIN Coll.Maps : loadRet[1].coll[1].Maps[n] = Coll.Maps[n]
       /\ \A n \in DOMAIN Coll.Programs :
             loadRet[1].coll[1].Programs[n] = Coll.Programs[n].fd

\* C16: a load with a missing maps/ or programs/ subdirectory does not return
\* that directory's not-exist error and loads no entry of that kind; a listing
\* that fails otherwise returns its error.
C16_MissingDirIsEmpty ==
    JustLoaded =>
       LET o == loadRet[1] IN
       /\ \A kind \in {"pinMap", "pinProgram"} :
             SubDir(kind) \notin fs.dirs =>
                /\ o.err # PathError("open", SubDir(kind), "ENOENT")
                /\ \A i \in DOMAIN o.calls : o.calls[i].kind # kind
       /\ (o.fault.listing = "maps" /\ SubDir("pinMap") \in fs.dirs) =>
             o.err = PathError("open", SubDir("pinMap"), "EACCES")

\* C19: every load call gets the path <dir>/maps/<name> or <dir>/programs/<name>
\* whatever the working directory, the explicit variant also the metadata found
\* under <name>, and a loaded handle is stored under <name>.
C19_LoadPath ==
    JustLoaded =>
       LET o == loadRet[1] IN
       /\ \A i \in DOMAIN o.calls :
             /\ o.calls[i].path = Join(SubDir(o.calls[i].kind), o.calls[i].name)
             /\ o.calls[i].abi =
                   IF o.explicit THEN <<ABIOf(o.calls[i].name)>> ELSE <<>>
       /\ o.coll # <<>> =>
             /\ DOMAIN o.coll[1].Maps =
                   {o.calls[i].name : i \in {j \in DOMAIN o.calls : o.calls[j].kind = "pinMap"}}
             /\ DOMAIN o.coll[1].Programs =
                   {o.calls[i].name :
                       i \in {j \in DOMAIN o.calls : o.calls[j].kind = "pinProgram"}}

====
